---- MODULE Spec2Model ----
(***************************************************************************)
(* Room-scoped relay of the signaling server (server/index.js): the rooms  *)
(* registry, the per-connection closure variables and the message and      *)
(* close handlers of one WebSocket connection.  Then the browser client    *)
(* (src/App.tsx, components/YouTubeSync.tsx): joining, call negotiation    *)
(* and the host side of playback synchronisation.                          *)
(***************************************************************************)
EXTENDS Integers, Sequences, FiniteSets, TLC

\* ------------------------------------------------------------------ bounds

\* The registry holds at most this many session entries in total: a join
\* that would add one more is not offered to the server.
MaxEntries == 3

\* A peer connection has at most this many chained operations pending: a
\* message or a click that would chain one more is not offered to the page.
MaxOps == 3

\* At most this many offers of the page are unanswered or being prepared.
MaxOffers == 2

\* ------------------------------------------------------------------ values

\* The connection handles (the `ws` objects handed to wss.on('connection')).
Conns == {"A", "B", "C"}

\* JavaScript's undefined: the value of an unassigned variable and of a
\* property that a parsed object does not carry.  JSON.stringify drops a
\* property whose value is undefined, so an envelope field that holds
\* Undefined is a field that is absent on the wire.
Undefined == "<undefined>"

\* Room codes a join may carry.  "" is the empty string; "undefined" is the
\* nine-letter string, which is also the property key that rooms[undefined]
\* looks up.
RoomCodes == {"", "ABCD", "undefined"}

\* The display name each connection's client joins under.
NameOf(ws) == IF ws = "A" THEN "alice" ELSE IF ws = "B" THEN "bob" ELSE "carol"

\* The key field of a join: 64 hex characters ('00'.repeat(32)).
HexKey == "00..00"

\* ---------------------------------------------------------------- messages

\* An inbound message is a text frame.  kind says what JSON.parse makes of
\* it: "garbage" is no JSON document, "null" is the document null, "scalar" a
\* number, string or boolean, "object" an object with the fields below.
Msg(kind, type, room, user, key, payload, action, time, videoId) ==
    [kind |-> kind, type |-> type, room |-> room, user |-> user, key |-> key,
     payload |-> payload, action |-> action, time |-> time, videoId |-> videoId]

Garbage == Msg("garbage", Undefined, Undefined, Undefined, Undefined,
               Undefined, Undefined, Undefined, Undefined)
JsonNull == Msg("null", Undefined, Undefined, Undefined, Undefined,
                Undefined, Undefined, Undefined, Undefined)
JsonScalar == Msg("scalar", Undefined, Undefined, Undefined, Undefined,
                  Undefined, Undefined, Undefined, Undefined)

JoinMsg(room, user, key) ==
    Msg("object", "join", room, user, key,
        Undefined, Undefined, Undefined, Undefined)
SignalMsg(room, user, payload) ==
    Msg("object", "signal", room, user, Undefined,
        payload, Undefined, Undefined, Undefined)
YtSyncMsg(room, action, time, videoId) ==
    Msg("object", "yt-sync", room, Undefined, Undefined,
        Undefined, action, time, videoId)
\* A well-formed object that is none of the three: no type, or another one.
OtherMsg(type) ==
    Msg("object", type, Undefined, Undefined, Undefined,
        Undefined, Undefined, Undefined, Undefined)

\* The joins of connection ws: one per room code, and one that carries no
\* key.
JoinMsgs(ws) ==
    {JoinMsg(r, NameOf(ws), HexKey) : r \in RoomCodes}
        \cup {JoinMsg("ABCD", NameOf(ws), Undefined)}
SignalMsgs == {SignalMsg("ABCD", "alice", "sdp-offer"),
               SignalMsg("", "bob", "candidate")}
YtSyncMsgs == {YtSyncMsg("ABCD", "play", Undefined, Undefined),
               YtSyncMsg("ABCD", "seek", "42.5", Undefined),
               YtSyncMsg("ABCD", "load", Undefined, "dQw4w9WgXcQ")}
RelayMsgs == SignalMsgs \cup YtSyncMsgs
OtherMsgs == {OtherMsg(Undefined), OtherMsg("ping")}
BadMsgs == {Garbage, JsonNull, JsonScalar}
\* The messages the client of connection ws may send.
Messages(ws) == JoinMsgs(ws) \cup RelayMsgs \cup OtherMsgs \cup BadMsgs

\* An outbound envelope, after JSON.stringify.
Env(type, room, from, payload, action, time, videoId, message) ==
    [type |-> type, room |-> room, from |-> from, payload |-> payload,
     action |-> action, time |-> time, videoId |-> videoId,
     message |-> message]

JoinedEnv(room) ==
    Env("joined", room, Undefined, Undefined, Undefined, Undefined,
        Undefined, Undefined)
SignalEnv(from, payload) ==
    Env("signal", Undefined, from, payload, Undefined, Undefined,
        Undefined, Undefined)
YtSyncEnv(action, time, videoId) ==
    Env("yt-sync", Undefined, Undefined, Undefined, action, time,
        videoId, Undefined)
ErrorEnv(message) ==
    Env("error", Undefined, Undefined, Undefined, Undefined, Undefined,
        Undefined, message)

\* ------------------------------------------------------------------- state

VARIABLES
    rooms,    \* the registry: room key -> list of {ws, userId, key}
    roomId,   \* per open connection: the closure variable roomId
    userId,   \* per open connection: the closure variable userId
    status    \* per connection: "new" (not yet accepted), "open", "closed"

\* The transport of each connection: what its client has written to the
\* socket, how much of that the server has handled, and what the server's
\* peer.ws.send calls have put on the socket towards the client.
VARIABLES
    sentLog,    \* per connection: the messages its client has sent, in order
    handled,    \* per connection: how many of them the server has handled
    delivered   \* per connection: the relayed envelopes sent to it, in order

wireVars == <<sentLog, handled, delivered>>

vars == <<rooms, roomId, userId, status, wireVars>>

\* The page of one browser client (src/App.tsx, components/YouTubeSync.tsx):
\* React state, refs, the operations chain of its RTCPeerConnection, the
\* YouTube player, and the offers it has sent that no answer has met yet.
VARIABLES
    joined,            \* state joined (line 12)
    wsRef,             \* wsRef.current: Null, or the socket's readyState
    wsReady,           \* state wsReady (line 19)
    media,             \* handleJoin at await getUserMedia: idle, pending, settled
    pcRef,             \* pcRef.current: Null, or "pc", the RTCPeerConnection
    pc,                \* the state of that RTCPeerConnection
    operations,        \* the connection's chained operations, oldest first
    isHost,            \* state isHost (line 16)
    disableSync,       \* state disableSync (line 20)
    error,             \* state error (line 21): Null or the banner text
    videoId,           \* state videoId (line 15), as a sequence of characters
    ytClosure,         \* the render whose handleYTStateChange the player
                       \* effect of YouTubeSync holds
    ytPlayer,          \* YouTubeSync's player: none, created, ready
    ytPlayerRef,       \* ytPlayerRef.current: Null or the player
    unanswered,        \* offers of this client relayed and not yet answered
    implicitRollback   \* whether the browser rolls a local offer back on a
                       \* remote offer (it differs between browsers)

clientVars == <<joined, wsRef, wsReady, media, pcRef, pc, operations, isHost,
                disableSync, error, videoId, ytClosure, ytPlayer, ytPlayerRef,
                unanswered, implicitRollback>>

\* The player's playback, and what the page's effects and closures hold
\* from the renders they were made in.
VARIABLES
    playback,      \* the player: its state, position and video
    interval,      \* whether the setInterval of lines 174-180 is running
    renderedRef,   \* ytPlayerRef.current as the last render read it
    msgClosure     \* the render whose handleJoin made the socket's onmessage

playbackVars == <<playback, interval, renderedRef, msgClosure>>

allVars == <<vars, clientVars, playbackVars>>

\* null: a ref never assigned, a state initialised with null.
Null == "<null>"

\* useState('dQw4w9WgXcQ'), line 15.
DefaultVideoId == <<"d", "Q", "w", "4", "w", "9", "W", "g", "X", "c", "Q">>

\* new RTCPeerConnection(), line 95.
NewPeerConnection ==
    [signalingState |-> "stable", localDescription |-> Null,
     remoteDescription |-> Null]

\* The handlers of the render in which isHost and disableSync have these
\* values.
Render(host, disabled) == [isHost |-> host, disableSync |-> disabled]

\* The position a player starts at and the farthest one followed, in
\* periods of the reconciliation timer (5 seconds).
MaxTime == 2

\* No player yet.
NoPlayer == [state |-> -1, time |-> 0, video |-> <<>>]

\* new YT.Player(..., {videoId, ...}), YouTubeSync lines 34-47: the video
\* is cued at its start, unstarted.
NewPlayer(id) == [state |-> -1, time |-> 0, video |-> id]

\* The page as loaded: the useState and useRef initial values, lines 10-24.
PageLoaded ==
    /\ joined = FALSE
    /\ wsRef = Null
    /\ wsReady = FALSE
    /\ media = "idle"
    /\ pcRef = Null
    /\ pc = NewPeerConnection
    /\ operations = <<>>
    /\ isHost = FALSE
    /\ disableSync = FALSE
    /\ error = Null
    /\ videoId = DefaultVideoId
    /\ ytClosure = Render(FALSE, FALSE)
    /\ ytPlayer = "none"
    /\ ytPlayerRef = Null
    /\ unanswered = 0
    /\ playback = NoPlayer
    /\ interval = FALSE
    /\ renderedRef = Null
    /\ msgClosure = Render(FALSE, FALSE)

\* The closure variables of a connection live as long as its handlers can
\* run: they are created by the connection callback and are unreachable
\* once the close handler has run.  The closure variable `key` (line 31,
\* assigned on line 39) is never read by any handler; the model keeps the
\* key in the session entry only.

EmptyRegistry == [k \in {} |-> <<>>]

Init ==
    /\ rooms = EmptyRegistry
    /\ roomId = [c \in {} |-> Undefined]
    /\ userId = [c \in {} |-> Undefined]
    /\ status = [c \in Conns |-> "new"]
    /\ sentLog = [c \in Conns |-> <<>>]
    /\ handled = [c \in Conns |-> 0]
    /\ delivered = [c \in Conns |-> <<>>]
    /\ PageLoaded
    /\ implicitRollback = FALSE

\* ------------------------------------------------------- JavaScript helpers

\* v in a boolean context: undefined and the empty string are falsy.
Truthy(v) == v # Undefined /\ v # ""

\* rooms[v]: a property key is a string, and undefined becomes "undefined".
PropertyKey(v) == IF v = Undefined THEN "undefined" ELSE v

\* rooms[id] is an array (arrays are truthy, the empty one too).
HasRoom(reg, id) == PropertyKey(id) \in DOMAIN reg

\* The fallback of a missing room taken from the registry instead of being
\* the empty list: the sessions of some room that exists.
PeersOfSomeRoom(reg, id) ==
    IF HasRoom(reg, id) THEN reg[PropertyKey(id)]
    ELSE IF DOMAIN reg = {} THEN <<>>
    ELSE reg[CHOOSE k \in DOMAIN reg : TRUE]

\* rooms[roomId] || []
PeersOf(reg, id) == IF HasRoom(reg, id) THEN reg[PropertyKey(id)] ELSE <<>>

\* Buffer.from(k, 'hex') throws a TypeError when k is undefined.
BufferFromThrows(k) == k = Undefined

\* peer.ws.send(...) on a connection that has closed: the ws package up to
\* 6.x throws "not opened", from 7.0 on it returns without sending.  The
\* repository pins no version: oldWs says which of the two this call does.
SendThrows(st, to, oldWs) == st[to] = "closed" /\ oldWs

Call(to, env) == [to |-> to, env |-> env]

NumEntries(reg) ==
    LET RECURSIVE Sum(_)
        Sum(ks) == IF ks = {} THEN 0
                   ELSE LET k == CHOOSE x \in ks : TRUE
                        IN Len(reg[k]) + Sum(ks \ {k})
    IN Sum(DOMAIN reg)

\* --------------------------------------------------------- message handler

\* The relay guard dropped: every listed peer is a target.
IsAnyPeer(peer, ws) == TRUE

\* The guard of both relay loops (lines 47 and 55): peer.ws !== ws.
IsOtherPeer(peer, ws) == peer.ws # ws

\* peers.forEach(peer => { if (peer.ws !== ws) peer.ws.send(env) }), lines
\* 46-50 and 54-63: the send calls made, in order, and whether one threw
\* (which ends the loop).
RECURSIVE forEachPeer(_, _, _, _, _)
forEachPeer(peers, ws, env, st, oldWs) ==
    IF peers = <<>> THEN [sends |-> <<>>, threw |-> FALSE]
    ELSE LET peer == Head(peers) IN
         IF IsOtherPeer(peer, ws)
         THEN IF SendThrows(st, peer.ws, oldWs)
              THEN [sends |-> <<Call(peer.ws, env)>>, threw |-> TRUE]
              ELSE LET rest == forEachPeer(Tail(peers), ws, env, st, oldWs)
                   IN [sends |-> <<Call(peer.ws, env)>> \o rest.sends,
                       threw |-> rest.threw]
         ELSE forEachPeer(Tail(peers), ws, env, st, oldWs)

\* The room initialised on every join (the `if` of line 40 lost): the new
\* entry replaces the list instead of being appended to it.
RegistryReset(reg, id, entry) ==
    LET k == PropertyKey(id) IN
    [x \in DOMAIN reg \cup {k} |-> IF x = k THEN <<entry>> ELSE reg[x]]

\* if (!rooms[roomId]) rooms[roomId] = []; rooms[roomId].push(entry)
RegistryPush(reg, id, entry) ==
    LET k == PropertyKey(id) IN
    IF k \in DOMAIN reg
    THEN [reg EXCEPT ![k] = Append(@, entry)]
    ELSE [x \in DOMAIN reg \cup {k} |-> IF x = k THEN <<entry>> ELSE reg[x]]

Outcome(reg, rid, uid, sends, threw, err) ==
    [rooms |-> reg, roomId |-> rid, userId |-> uid, sends |-> sends,
     threw |-> threw, err |-> err]

\* The join branch, lines 37-42.  roomId and userId are assigned before
\* Buffer.from can throw.
JoinBranch(ws, data, reg) ==
    IF BufferFromThrows(data.key)
    THEN Outcome(reg, data.room, data.user, <<>>, TRUE, "TypeError: key")
    ELSE Outcome(RegistryPush(reg, data.room,
                              [ws |-> ws, userId |-> data.user, key |-> data.key]),
                 data.room, data.user,
                 <<Call(ws, JoinedEnv(data.room))>>, FALSE, Undefined)

\* A signal branch that trusts the envelope: the peers of the room the
\* envelope names, the sender it names.
SignalBranchByEnvelope(ws, data, reg, rid, uid, st, oldWs) ==
    LET r == forEachPeer(PeersOf(reg, data.room), ws,
                         SignalEnv(data.user, data.payload), st, oldWs)
    IN Outcome(reg, rid, uid, r.sends, r.threw,
               IF r.threw THEN "Error: not opened" ELSE Undefined)

\* The signal branch, lines 45-50.
SignalBranch(ws, data, reg, rid, uid, st, oldWs) ==
    LET r == forEachPeer(PeersOf(reg, rid), ws, SignalEnv(uid, data.payload),
                         st, oldWs)
    IN Outcome(reg, rid, uid, r.sends, r.threw,
               IF r.threw THEN "Error: not opened" ELSE Undefined)

\* The yt-sync branch, lines 53-63.
YtSyncBranch(ws, data, reg, rid, uid, st, oldWs) ==
    LET r == forEachPeer(PeersOf(reg, rid), ws,
                         YtSyncEnv(data.action, data.time, data.videoId),
                         st, oldWs)
    IN Outcome(reg, rid, uid, r.sends, r.threw,
               IF r.threw THEN "Error: not opened" ELSE Undefined)

\* The try block, lines 35-64.  JSON.parse throws a SyntaxError on text that
\* is no JSON document; data.type throws a TypeError when data is null and
\* is undefined when data is a number, a string or a boolean.
TryBlock(ws, m, reg, rid, uid, st, oldWs) ==
    IF m.kind = "garbage"
    THEN Outcome(reg, rid, uid, <<>>, TRUE, "SyntaxError")
    ELSE IF m.kind = "null"
    THEN Outcome(reg, rid, uid, <<>>, TRUE, "TypeError: null")
    ELSE IF m.type = "join" THEN JoinBranch(ws, m, reg)
    ELSE IF m.type = "signal"
    THEN SignalBranch(ws, m, reg, rid, uid, st, oldWs)
    ELSE IF m.type = "yt-sync"
    THEN YtSyncBranch(ws, m, reg, rid, uid, st, oldWs)
    ELSE Outcome(reg, rid, uid, <<>>, FALSE, Undefined)

\* The exception swallowed: the catch clause sends nothing.
CatchSilent(ws, t) == t

\* The catch clause, lines 65-67: one error envelope to the sender.
CatchClause(ws, t) ==
    IF t.threw
    THEN [t EXCEPT !.sends = @ \o <<Call(ws, ErrorEnv(t.err))>>]
    ELSE t

\* ws.on('message'), lines 33-68.
MessageHandler(ws, m, reg, rid, uid, st, oldWs) ==
    CatchClause(ws, TryBlock(ws, m, reg, rid, uid, st, oldWs))

\* A join that registers is offered only while the registry has room for it.
WithinBounds(m) ==
    (m.type = "join" /\ ~BufferFromThrows(m.key)) => NumEntries(rooms) < MaxEntries

\* wss.on('connection'), lines 30-31: a new handle with fresh closure
\* variables.
OnConnection(ws) ==
    /\ status[ws] = "new"
    /\ status' = [status EXCEPT ![ws] = "open"]
    /\ roomId' = [c \in DOMAIN roomId \cup {ws} |->
                      IF c = ws THEN Undefined ELSE roomId[c]]
    /\ userId' = [c \in DOMAIN userId \cup {ws} |->
                      IF c = ws THEN Undefined ELSE userId[c]]
    /\ UNCHANGED rooms
    /\ UNCHANGED wireVars
    /\ UNCHANGED <<clientVars, playbackVars>>

\* The outcome of the message handler in the current state: the registry
\* and closure variables it leaves and the ws.send calls it makes, in order.
Handle(ws, m, oldWs) ==
    MessageHandler(ws, m, rooms, roomId[ws], userId[ws], status, oldWs)

\* A send can throw only when some connection has closed.
ThrowChoices ==
    IF \E c \in Conns : status[c] = "closed" THEN BOOLEAN ELSE {FALSE}

\* Only the relay branches send to a connection other than the sender.
ThrowChoicesFor(m) ==
    IF m.type \in {"signal", "yt-sync"} THEN ThrowChoices ELSE {FALSE}

\* One inbound message on an open connection, handled to completion.  The
\* send calls of the handler are Handle(ws, m, oldWs).sends.
OnMessage(ws, m) ==
    /\ status[ws] = "open"
    /\ WithinBounds(m)
    /\ \E oldWs \in ThrowChoicesFor(m) :
          LET r == Handle(ws, m, oldWs)
          IN /\ rooms' = r.rooms
             /\ roomId' = [roomId EXCEPT ![ws] = r.roomId]
             /\ userId' = [userId EXCEPT ![ws] = r.userId]
    /\ UNCHANGED status
    /\ UNCHANGED wireVars
    /\ UNCHANGED <<clientVars, playbackVars>>

\* rooms[roomId].filter(peer => peer.ws !== ws), line 72.
FilterOut(list, ws) == SelectSeq(list, LAMBDA peer : peer.ws # ws)

\* The delete forgotten: a room emptied by the filter stays in the registry.
KeepIfEmpty(reg, k) == reg

\* if (rooms[roomId].length === 0) delete rooms[roomId], line 73.
DeleteIfEmpty(reg, k) ==
    IF Len(reg[k]) = 0 THEN [x \in DOMAIN reg \ {k} |-> reg[x]] ELSE reg

\* if (roomId && rooms[roomId]), line 71.
CloseGuard(reg, rid) == Truthy(rid) /\ HasRoom(reg, rid)

\* The body of the close handler, lines 71-74.
CloseHandler(ws, reg, rid) ==
    IF CloseGuard(reg, rid)
    THEN LET k == PropertyKey(rid)
         IN DeleteIfEmpty([reg EXCEPT ![k] = FilterOut(@, ws)], k)
    ELSE reg

\* ws.on('close'), lines 70-75.
OnClose(ws) ==
    /\ status[ws] = "open"
    /\ status' = [status EXCEPT ![ws] = "closed"]
    /\ rooms' = CloseHandler(ws, rooms, roomId[ws])
    /\ roomId' = [c \in DOMAIN roomId \ {ws} |-> roomId[c]]
    /\ userId' = [c \in DOMAIN userId \ {ws} |-> userId[c]]
    /\ UNCHANGED wireVars
    /\ UNCHANGED <<clientVars, playbackVars>>

Next ==
    \/ \E ws \in Conns : OnConnection(ws)
    \/ \E ws \in Conns : \E m \in Messages(ws) : OnMessage(ws, m)
    \/ \E ws \in Conns : OnClose(ws)

Spec == Init /\ [][Next]_vars

\* ------------------------------------------------ the relay with its sockets

\* The most messages the clients write to their sockets, all together.
MaxSent == 4

\* The messages a client writes in the runs that follow the order of
\* delivery: its join, a signal and a yt-sync.
WireMsgs(ws) ==
    {JoinMsg("ABCD", NameOf(ws), HexKey),
     SignalMsg("ABCD", NameOf(ws), "sdp-offer"),
     YtSyncMsg("ABCD", "play", Undefined, Undefined)}

TotalSent == Len(sentLog["A"]) + Len(sentLog["B"]) + Len(sentLog["C"])

\* The client of connection ws writes m to its socket.
ClientSend(ws, m) ==
    /\ status[ws] = "open"
    /\ TotalSent < MaxSent
    /\ sentLog' = [sentLog EXCEPT ![ws] = Append(@, m)]
    /\ UNCHANGED <<rooms, roomId, userId, status, handled, delivered>>
    /\ UNCHANGED <<clientVars, playbackVars>>

\* A socket hands the server its frames in the order they were written:
\* the next 'message' event of ws carries the oldest unhandled one.
NextMessage(ws) == sentLog[ws][handled[ws] + 1]

\* What one handler run puts on the socket of connection to: the relayed
\* envelopes of its send calls to that connection, in call order, each
\* with the sender's connection and the number of the message handled.  A
\* send on a closed socket puts nothing on it.
Written(sends, ws, n, to) ==
    LET own == SelectSeq(sends, LAMBDA c : c.to = to /\ c.env.type \in {"signal", "yt-sync"})
    IN IF status[to] = "open"
       THEN [i \in 1..Len(own) |-> [from |-> ws, n |-> n, env |-> own[i].env]]
       ELSE <<>>

\* Frames written first leave last.
DeliverFirst(log, frames) == frames \o log

\* peer.ws.send queues the frame behind those already written to the socket.
Deliver(log, frames) == log \o frames

\* ws.on('message'), lines 33-68, on the next frame of the socket: the
\* handler runs to completion (it awaits nothing) before any other frame is
\* handled.
Receive(ws) ==
    /\ status[ws] = "open"
    /\ handled[ws] < Len(sentLog[ws])
    /\ WithinBounds(NextMessage(ws))
    /\ \E oldWs \in ThrowChoicesFor(NextMessage(ws)) :
          LET r == Handle(ws, NextMessage(ws), oldWs)
          IN /\ rooms' = r.rooms
             /\ roomId' = [roomId EXCEPT ![ws] = r.roomId]
             /\ userId' = [userId EXCEPT ![ws] = r.userId]
             /\ delivered' = [c \in Conns |->
                    Deliver(delivered[c],
                            Written(r.sends, ws, handled[ws] + 1, c))]
    /\ handled' = [handled EXCEPT ![ws] = @ + 1]
    /\ UNCHANGED <<status, sentLog>>
    /\ UNCHANGED <<clientVars, playbackVars>>

NextOrder ==
    \/ \E ws \in Conns : OnConnection(ws)
    \/ \E ws \in Conns : \E m \in WireMsgs(ws) : ClientSend(ws, m)
    \/ \E ws \in Conns : Receive(ws)
    \/ \E ws \in Conns : OnClose(ws)

SpecOrder == Init /\ [][NextOrder]_vars

\* ------------------------------------------------------------ vocabulary

OpenConns == {c \in Conns : status[c] = "open"}
ClosedConns == {c \in Conns : status[c] = "closed"}

\* The connections listed in the room stored under key k.
Members(k) == {rooms[k][i].ws : i \in 1..Len(rooms[k])}

\* The session list stored under key k, empty when the key is absent.
ListOf(k) == IF k \in DOMAIN rooms THEN rooms[k] ELSE <<>>

\* The rooms that list connection c.
RoomsOf(c) == {k \in DOMAIN rooms : c \in Members(k)}

\* How often connection c is listed in the room stored under key k.
TimesListed(c, k) == Cardinality({i \in 1..Len(rooms[k]) : rooms[k][i].ws = c})

IsRelayed(env) == env.type \in {"signal", "yt-sync"}

\* The positions of the relayed envelopes sent to connection c.
RelayedTo(sends, c) ==
    {i \in 1..Len(sends) : sends[i].to = c /\ IsRelayed(sends[i].env)}

\* The positions of the error envelopes among the sends.
Errors(sends) == {i \in 1..Len(sends) : sends[i].env.type = "error"}

\* The envelope the relay of message m by connection S carries.
RelayEnvOf(S, m) ==
    IF m.type = "signal" THEN SignalEnv(userId[S], m.payload)
    ELSE YtSyncEnv(m.action, m.time, m.videoId)

\* ====================================================================
\* The browser client (src/App.tsx) and its player component
\* (components/YouTubeSync.tsx).
\* ====================================================================

\* The room code and display name typed before Join Room is pressed; the
\* button is disabled while either is empty (line 211).
ClientRoom == "ABCD"
ClientUser == "alice"

\* ----------------------------------------------------- extractYouTubeId

\* \w of a JavaScript regular expression.
WordChars ==
    {"a", "b", "c", "d", "e", "f", "g", "h", "i", "j", "k", "l", "m",
     "n", "o", "p", "q", "r", "s", "t", "u", "v", "w", "x", "y", "z",
     "A", "B", "C", "D", "E", "F", "G", "H", "I", "J", "K", "L", "M",
     "N", "O", "P", "Q", "R", "S", "T", "U", "V", "W", "X", "Y", "Z",
     "0", "1", "2", "3", "4", "5", "6", "7", "8", "9", "_"}

\* [\w-]
IdChars == WordChars \cup {"-"}

\* \s, for the value of a one-line text input.
SpaceChars == {" "}

\* ([\w-]{11}) at position i.
IsId(s, i) == i + 10 <= Len(s) /\ \A j \in i..(i + 10) : s[j] \in IdChars

\* The literal lit at position i.
Lit(s, i, lit) ==
    i + Len(lit) - 1 <= Len(s) /\ SubSeq(s, i, i + Len(lit) - 1) = lit

Max(S) == CHOOSE x \in S : \A y \in S : y <= x
Min(S) == CHOOSE x \in S : \A y \in S : x <= y

\* [^\/\n\s]+\/\S+\/ from position p: the positions where the identifier
\* can start.
PathSegments(s, p) ==
    {k + 1 : k \in {k \in (p + 3)..Len(s) :
        /\ s[k] = "/"
        /\ IsId(s, k + 1)
        /\ \E j \in (p + 1)..(k - 2) :
              /\ s[j] = "/"
              /\ \A x \in p..(j - 1) : s[x] \notin SpaceChars \cup {"/"}
              /\ \A x \in (j + 1)..(k - 1) : s[x] \notin SpaceChars}}

\* (?:v|e(?:mbed)?|shorts)\/ from position p; no two of the words match at
\* the same place.
PathWords == << <<"v", "/">>, <<"e", "m", "b", "e", "d", "/">>, <<"e", "/">>, <<"s", "h", "o", "r", "t", "s", "/">> >>
PathWord(s, p) ==
    {p + Len(PathWords[n]) : n \in {n \in 1..Len(PathWords) :
        Lit(s, p, PathWords[n]) /\ IsId(s, p + Len(PathWords[n]))}}

\* .*[?&]v= from position p.
PathQuery(s, p) ==
    {q + 3 : q \in {q \in p..Len(s) :
        s[q] \in {"?", "&"} /\ Lit(s, q + 1, <<"v", "=">>) /\ IsId(s, q + 3)}}

YoutubeCom == <<"y", "o", "u", "t", "u", "b", "e", ".", "c", "o", "m", "/">>
YoutuBe == <<"y", "o", "u", "t", "u", ".", "b", "e", "/">>

\* Where the captured group starts when the expression matches from
\* position i; 0 when it does not.  The alternatives are tried in the order
\* written and the quantifiers are greedy.
CaptureAt(s, i) ==
    IF Lit(s, i, YoutubeCom)
    THEN LET p == i + Len(YoutubeCom)
         IN IF PathSegments(s, p) # {} THEN Max(PathSegments(s, p))
            ELSE IF PathWord(s, p) # {} THEN Min(PathWord(s, p))
            ELSE IF PathQuery(s, p) # {} THEN Max(PathQuery(s, p))
            ELSE 0
    ELSE IF Lit(s, i, YoutuBe) /\ IsId(s, i + Len(YoutuBe))
    THEN i + Len(YoutuBe)
    ELSE 0

\* The two matches of extractYouTubeId, lines 163-168: the empty string is
\* <<>>.
matchYouTubeId(input) ==
    LET starts == {i \in 1..Len(input) : CaptureAt(input, i) # 0}
    IN IF starts # {}
       THEN LET c == CaptureAt(input, Min(starts)) IN SubSeq(input, c, c + 10)
       ELSE IF Len(input) = 11 /\ IsId(input, 1) THEN input
       ELSE <<>>

\* What the user puts into the video input.
VideoInputs ==
    { DefaultVideoId,
      <<"h", "t", "t", "p", "s", ":", "/", "/", "y", "o", "u", "t", "u", ".", "b", "e", "/", "9", "b", "Z", "k", "p", "7", "q", "1", "9", "f", "0">>,
      <<"h", "t", "t", "p", "s", ":", "/", "/", "w", "w", "w", ".", "y", "o", "u", "t", "u", "b", "e", ".", "c", "o", "m", "/", "w", "a", "t", "c", "h", "?", "v", "=", "9", "b", "Z", "k", "p", "7", "q", "1", "9", "f", "0">>,
      <<"h", "t", "t", "p", "s", ":", "/", "/", "y", "o", "u", "t", "u", ".", "b", "e", "/", "s", "h", "o", "r", "t">>,
      <<"d", "Q", "w", "4", "w", "9", "W", "g", "X", "c", "Q", "Q">>,
      <<"a", "b", "c">> }

\* The identifiers of those inputs, matched once.
ExtractedIds == [v \in VideoInputs |-> matchYouTubeId(v)]

\* function extractYouTubeId, lines 161-169.
extractYouTubeId(input) ==
    IF input \in VideoInputs THEN ExtractedIds[input] ELSE matchYouTubeId(input)

\* videoId={extractYouTubeId(videoId) || videoId}, line 265.
VideoIdProp(v) == IF extractYouTubeId(v) # <<>> THEN extractYouTubeId(v) ELSE v

\* --------------------------------------------------- RTCPeerConnection

\* One chained operation of the connection and the handler awaiting it:
\* task "offer", "answer", "candidate" (the message being handled) or
\* "startCall".
Operation(task, op) == [task |-> task, op |-> op]

Fulfilled(c) == [pc |-> c, ok |-> TRUE]
Rejected(c) == [pc |-> c, ok |-> FALSE]

\* What the browser does with the operation: the state it leaves and whether
\* the promise is fulfilled.  A rejected operation changes nothing.
PcOperation(c, el, rollback) ==
    CASE el.op = "setRemoteDescription" /\ el.task = "offer" ->
           IF c.signalingState \in {"stable", "have-remote-offer"}
           THEN Fulfilled([c EXCEPT !.signalingState = "have-remote-offer",
                                    !.remoteDescription = "offer"])
           ELSE IF rollback
           THEN Fulfilled([signalingState |-> "have-remote-offer",
                           localDescription |-> Null,
                           remoteDescription |-> "offer"])
           ELSE Rejected(c)
      [] el.op = "setRemoteDescription" /\ el.task = "answer" ->
           IF c.signalingState = "have-local-offer"
           THEN Fulfilled([c EXCEPT !.signalingState = "stable",
                                    !.remoteDescription = "answer"])
           ELSE Rejected(c)
      [] el.op = "createAnswer" ->
           IF c.signalingState = "have-remote-offer"
           THEN Fulfilled(c) ELSE Rejected(c)
      [] el.op = "setLocalDescription" /\ el.task = "offer" ->
           IF c.signalingState = "have-remote-offer"
           THEN Fulfilled([c EXCEPT !.signalingState = "stable",
                                    !.localDescription = "answer"])
           ELSE Rejected(c)
      [] el.op = "createOffer" -> Fulfilled(c)
      [] el.op = "setLocalDescription" /\ el.task = "startCall" ->
           IF c.signalingState \in {"stable", "have-local-offer"}
           THEN Fulfilled([c EXCEPT !.signalingState = "have-local-offer",
                                    !.localDescription = "offer"])
           ELSE Rejected(c)
      [] el.op = "addIceCandidate" ->
           IF c.remoteDescription # Null THEN Fulfilled(c) ELSE Rejected(c)

\* ------------------------------------------------------------ handlers

\* ws.send of the browser: the data leaves only on an open socket; on a
\* closing or closed one it is dropped without an exception.
Transmitted(ws, sends) == IF ws = "OPEN" THEN sends ELSE <<>>

\* What a handler leaves: the connection, its chain, the ws.send calls it
\* made and the banner text it set (Null: setError not called).
ClientOutcome(c, ops, sends, err) ==
    [pc |-> c, operations |-> ops, sends |-> sends, error |-> err]

\* A message handler that stops once the answer is created.
AwaitNextUnapplied(el) ==
    CASE el.task = "offer" /\ el.op = "setRemoteDescription" ->
           <<Operation("offer", "createAnswer")>>
      [] el.task = "startCall" /\ el.op = "createOffer" ->
           <<Operation("startCall", "setLocalDescription")>>
      [] OTHER -> <<>>

\* The statement after an await that was fulfilled: lines 57, 58, 60 of
\* the message handler and 130, 131 of startCall.
AwaitNext(el) ==
    CASE el.task = "offer" /\ el.op = "setRemoteDescription" ->
           <<Operation("offer", "createAnswer")>>
      [] el.task = "offer" /\ el.op = "createAnswer" ->
           <<Operation("offer", "setLocalDescription")>>
      [] el.task = "startCall" /\ el.op = "createOffer" ->
           <<Operation("startCall", "setLocalDescription")>>
      [] OTHER -> <<>>

SendAfter(el) ==
    CASE el.task = "offer" /\ el.op = "setLocalDescription" ->
           <<SignalMsg(ClientRoom, ClientUser, "sdp-answer")>>
      [] el.task = "startCall" /\ el.op = "setLocalDescription" ->
           <<SignalMsg(ClientRoom, ClientUser, "sdp-offer")>>
      [] OTHER -> <<>>

\* A catch clause that answers the relay instead of only telling the user.
CatchReplies(el, c, ops) ==
    ClientOutcome(c, ops, <<SignalMsg(ClientRoom, ClientUser, Undefined)>>,
                  "Error handling server message.")

\* The catch clauses, lines 78-81 and 134-137: the handler ends, the banner
\* is set, nothing is sent.
CatchRejected(el, c, ops) ==
    ClientOutcome(c, ops, <<>>,
                  IF el.task = "startCall" THEN "Failed to start call."
                  ELSE "Error handling server message.")

\* The oldest chained operation settles and the handler awaiting it runs to
\* its next await or to its end.
Resume(c, ops, rollback) ==
    LET el == Head(ops)
        r == PcOperation(c, el, rollback)
    IN IF r.ok
       THEN ClientOutcome(r.pc, Tail(ops) \o AwaitNext(el), SendAfter(el), Null)
       ELSE CatchRejected(el, r.pc, Tail(ops))

\* The first operation the message handler calls for a payload, lines 53
\* and 67.
FirstOperation(payload) ==
    IF payload = "sdp-offer" THEN Operation("offer", "setRemoteDescription")
    ELSE IF payload = "sdp-answer"
    THEN Operation("answer", "setRemoteDescription")
    ELSE Operation("candidate", "addIceCandidate")

\* wsRef.current.onmessage up to its first await, lines 45-82.  A signal
\* without payload throws on data.payload.sdp.  The yt-sync branch acts on
\* the player only.
onmessage(data, ref, c, ops) ==
    IF data.type = "signal" /\ ref # Null
    THEN IF data.payload = Undefined
         THEN ClientOutcome(c, ops, <<>>, "Error handling server message.")
         ELSE ClientOutcome(c, Append(ops, FirstOperation(data.payload)),
                            <<>>, Null)
    ELSE ClientOutcome(c, ops, <<>>, Null)

\* startCall without its test of wsReady.
startCallUnguarded(ready, host, ref, ops) ==
    [isHost |-> TRUE,
     operations |-> IF ref # Null
                    THEN Append(ops, Operation("startCall", "createOffer"))
                    ELSE ops,
     error |-> Null]

\* startCall up to its first await, lines 119-138.
startCall(ready, host, ref, ops) ==
    IF ~ready
    THEN [isHost |-> host, operations |-> ops,
          error |-> "WebSocket not ready, cannot start call"]
    ELSE [isHost |-> TRUE,
          operations |-> IF ref # Null
                         THEN Append(ops, Operation("startCall", "createOffer"))
                         ELSE ops,
          error |-> Null]

\* setError(text) when a handler called it.
SetError(old, new) == IF new = Null THEN old ELSE new

\* A position as JSON.stringify writes it into an envelope, in seconds.
Seconds == <<"0", "5", "10", "15", "20">>

JsonOfTime(t) == Seconds[t + 1]

\* JSON.parse of the time field of an envelope; an absent field is
\* undefined, which seekTo takes for the start of the video.
TimeOfJson(text) ==
    IF \E t \in 0..(Len(Seconds) - 1) : Seconds[t + 1] = text
    THEN CHOOSE t \in 0..(Len(Seconds) - 1) : Seconds[t + 1] = text
    ELSE 0

\* ytPlayerRef.current.getCurrentTime(), as the envelope carries it.
CurrentTime == JsonOfTime(playback.time)

\* The handleYTStateChange of one render, lines 144-150, called with the
\* player state; closure holds the isHost and disableSync of that render.
handleYTStateChange(closure, ws, playerRef, state) ==
    IF ws = Null \/ ~closure.isHost \/ closure.disableSync THEN <<>>
    ELSE IF state = 1 THEN <<YtSyncMsg(ClientRoom, "play", Undefined, Undefined)>>
    ELSE IF state = 2 THEN <<YtSyncMsg(ClientRoom, "pause", Undefined, Undefined)>>
    ELSE IF state = 3
    THEN <<YtSyncMsg(ClientRoom, "seek",
                     IF playerRef = Null THEN Undefined ELSE CurrentTime,
                     Undefined)>>
    ELSE <<>>

\* The event.data of the player's onStateChange: unstarted, ended, playing,
\* paused, buffering, cued.
PlayerStates == {-1, 0, 1, 2, 3, 5}

\* The player functions the message handler calls, lines 73-76, as the
\* IFrame API defines them.  playVideo: the player plays.
playVideo(p) == [p EXCEPT !.state = 1]

\* pauseVideo: the player is paused, unless the video has ended.
pauseVideo(p) == IF p.state = 0 THEN p ELSE [p EXCEPT !.state = 2]

\* A seek relative to the current position.
seekBy(p, t) ==
    [p EXCEPT !.time = IF @ + t > MaxTime THEN MaxTime ELSE @ + t,
              !.state = IF @ = 2 THEN 2 ELSE 1]

\* seekTo(seconds, true): the position is set; a paused player stays
\* paused, any other plays.
seekTo(p, t) == [p EXCEPT !.time = t, !.state = IF @ = 2 THEN 2 ELSE 1]

\* loadVideoById(id): the video is loaded and played from its start.
loadVideoById(p, id) == [state |-> 1, time |-> 0, video |-> id]

PlayerCall(fn, arg) == [fn |-> fn, arg |-> arg]

\* One call on the player.
Invoke(p, call) ==
    IF call.fn = "playVideo" THEN playVideo(p)
    ELSE IF call.fn = "pauseVideo" THEN pauseVideo(p)
    ELSE IF call.fn = "seekTo" THEN seekTo(p, TimeOfJson(call.arg))
    ELSE loadVideoById(p, call.arg)

RECURSIVE InvokeAll(_, _)
InvokeAll(p, calls) ==
    IF calls = <<>> THEN p ELSE InvokeAll(Invoke(p, Head(calls)), Tail(calls))

\* The four tests of the yt-sync branch, lines 73-76, in their order.
ytSyncCalls(data) ==
    (IF data.action = "play" THEN <<PlayerCall("playVideo", Undefined)>>
     ELSE <<>>)
    \o (IF data.action = "pause" THEN <<PlayerCall("pauseVideo", Undefined)>>
        ELSE <<>>)
    \o (IF data.action = "seek" THEN <<PlayerCall("seekTo", data.time)>>
        ELSE <<>>)
    \o (IF data.action = "load" THEN <<PlayerCall("loadVideoById", data.videoId)>>
        ELSE <<>>)

\* The player calls of wsRef.current.onmessage, lines 70-77: the else-if
\* after the signal branch; closure holds the disableSync of the render
\* whose handleJoin installed the handler.
ytSyncBranch(data, ref, playerRef, closure) ==
    IF data.type = "signal" /\ ref # Null THEN <<>>
    ELSE IF data.type = "yt-sync" /\ playerRef # Null /\ ~closure.disableSync
    THEN ytSyncCalls(data)
    ELSE <<>>

\* The player calls of one message event in the current state.
OnYtSync(data) == ytSyncBranch(data, pcRef, ytPlayerRef, msgClosure)

\* The player after those calls.  ytPlayerRef.current is the player whose
\* onReady ran last: while a newer player is not ready yet, the calls go to
\* the destroyed one and the newer is left as it is.
Applied(data) ==
    IF ytPlayer = "ready" THEN InvokeAll(playback, OnYtSync(data)) ELSE playback

\* The effect of lines 172-182, run after a render with these values: it
\* returns early, or starts the interval that its cleanup clears.
EffectInterval(host, playerRef, ws, disabled) ==
    host /\ playerRef # Null /\ ws # Null /\ ~disabled

\* A render: it reads ytPlayerRef.current, and React runs the effect again
\* when one of its dependencies differs from the render before.
Rendered ==
    /\ renderedRef' = ytPlayerRef'
    /\ interval' = EffectInterval(isHost', ytPlayerRef', wsRef', disableSync')

\* The ws.send calls of the interval callback, lines 174-180; host and
\* disabled are those of the render the effect ran in.
intervalCallback(playerRef, ws, host, disabled) ==
    IF playerRef # Null /\ ws # Null /\ host /\ ~disabled
    THEN <<YtSyncMsg(ClientRoom, "seek", CurrentTime, Undefined)>>
    ELSE <<>>

\* The Sync Video Now handler without its test of the host flag.
syncVideoNowAnyone(playerRef, ws, host, disabled) ==
    IF playerRef # Null /\ ws # Null /\ ~disabled
    THEN <<YtSyncMsg(ClientRoom, "seek", CurrentTime, Undefined)>>
    ELSE <<>>

\* The ws.send calls of the Sync Video Now button's onClick, lines 236-241.
syncVideoNow(playerRef, ws, host, disabled) ==
    IF playerRef # Null /\ ws # Null /\ host /\ ~disabled
    THEN <<YtSyncMsg(ClientRoom, "seek", CurrentTime, Undefined)>>
    ELSE <<>>

\* ------------------------------------------------------------- actions

\* The offers of startCall handlers that are still awaiting.
PendingOffers(ops) ==
    Cardinality({i \in 1..Len(ops) : ops[i].task = "startCall"})

Offers(sends) ==
    Cardinality({i \in 1..Len(sends) : sends[i].payload = "sdp-offer"})

\* handleJoin to its await of getUserMedia, lines 30-86, and the render it
\* causes: YouTubeSync mounts and its effect keeps this render's
\* onStateChange for the player (YouTubeSync lines 20-53).
HandleJoin ==
    /\ ~joined
    /\ joined' = TRUE
    /\ isHost' = FALSE
    /\ wsRef' = "CONNECTING"
    /\ media' = "pending"
    /\ ytClosure' = Render(FALSE, disableSync)
    /\ UNCHANGED <<wsReady, pcRef, pc, operations, disableSync, error, videoId,
                   ytPlayer, ytPlayerRef, unanswered, implicitRollback>>
    /\ msgClosure' = Render(FALSE, disableSync)
    /\ UNCHANGED playback
    /\ Rendered
    /\ UNCHANGED vars

\* wsRef.current.onopen, lines 36-40: the join envelope is sent.
WsOnOpen ==
    /\ wsRef = "CONNECTING"
    /\ wsRef' = "OPEN"
    /\ wsReady' = TRUE
    /\ UNCHANGED <<joined, media, pcRef, pc, operations, isHost, disableSync,
                   error, videoId, ytClosure, ytPlayer, ytPlayerRef,
                   unanswered, implicitRollback>>
    /\ UNCHANGED <<playback, msgClosure>>
    /\ Rendered
    /\ UNCHANGED vars

\* wsRef.current.onerror, lines 41-44: the connection failed; the browser
\* closes the socket.
WsOnError ==
    /\ wsRef \in {"CONNECTING", "OPEN"}
    /\ wsRef' = "CLOSED"
    /\ error' = "WebSocket connection error."
    /\ UNCHANGED <<joined, wsReady, media, pcRef, pc, operations, isHost,
                   disableSync, videoId, ytClosure, ytPlayer, ytPlayerRef,
                   unanswered, implicitRollback>>
    /\ UNCHANGED <<playback, msgClosure>>
    /\ Rendered
    /\ UNCHANGED vars

\* The relay connection closes.  handleJoin installs onopen, onerror and
\* onmessage (lines 36-82) and no onclose: no code of the page runs.
WsClosed ==
    /\ wsRef = "OPEN"
    /\ wsRef' = "CLOSED"
    /\ UNCHANGED <<joined, wsReady, media, pcRef, pc, operations, isHost,
                   disableSync, error, videoId, ytClosure, ytPlayer,
                   ytPlayerRef, unanswered, implicitRollback>>
    /\ UNCHANGED playbackVars
    /\ UNCHANGED vars

\* The ws.send call of wsRef.current.onopen, line 39.
onopen == <<JoinMsg(ClientRoom, ClientUser, HexKey)>>

\* A handleJoin that goes on to the peer connection without a stream.
afterGetUserMediaAnyway(granted, ref, c) ==
    [pcRef |-> "pc", pc |-> NewPeerConnection, sends |-> <<>>,
     error |-> IF granted THEN Null ELSE "Could not access camera/microphone."]

\* handleJoin after await getUserMedia, lines 84-111: the catch returns,
\* else the connection is created and kept in pcRef.current.
afterGetUserMedia(granted, ref, c) ==
    IF granted
    THEN [pcRef |-> "pc", pc |-> NewPeerConnection, sends |-> <<>>,
          error |-> Null]
    ELSE [pcRef |-> ref, pc |-> c, sends |-> <<>>,
          error |-> "Could not access camera/microphone."]

\* getUserMedia settles: granted or refused.
GetUserMedia(granted) ==
    /\ media = "pending"
    /\ media' = "settled"
    /\ LET r == afterGetUserMedia(granted, pcRef, pc)
       IN /\ pcRef' = r.pcRef
          /\ pc' = r.pc
          /\ error' = SetError(error, r.error)
    /\ UNCHANGED <<joined, wsRef, wsReady, operations, isHost, disableSync,
                   videoId, ytClosure, ytPlayer, ytPlayerRef, unanswered,
                   implicitRollback>>
    /\ UNCHANGED <<playback, msgClosure>>
    /\ Rendered
    /\ UNCHANGED vars

\* The envelopes the relay delivers to the page: a peer's signal with an
\* offer, an answer, a candidate or no payload, and the relay's own joined
\* and error envelopes.
SignalEnvs == {SignalEnv("bob", p) :
                  p \in {"sdp-offer", "sdp-answer", "candidate", Undefined}}
ControlEnvs == {JoinedEnv(ClientRoom), ErrorEnv("Unexpected token")}

\* One message event on the open socket.  A peer answers offers only, one
\* answer for each.
WsOnMessage(data) ==
    /\ wsRef = "OPEN"
    /\ data.payload = "sdp-answer" => unanswered > 0
    /\ LET r == onmessage(data, pcRef, pc, operations)
       IN /\ Len(r.operations) <= MaxOps
          /\ pc' = r.pc
          /\ operations' = r.operations
          /\ error' = SetError(error, r.error)
    /\ unanswered' = IF data.payload = "sdp-answer" THEN unanswered - 1
                     ELSE unanswered
    /\ UNCHANGED <<joined, wsRef, wsReady, media, pcRef, isHost, disableSync,
                   videoId, ytClosure, ytPlayer, ytPlayerRef,
                   implicitRollback>>
    /\ playback' = Applied(data)
    /\ UNCHANGED msgClosure
    /\ Rendered
    /\ UNCHANGED vars

\* The Start Call button, lines 119-128 and 221 (disabled={!wsReady}).
StartCall ==
    /\ joined
    /\ wsReady
    /\ LET r == startCall(wsReady, isHost, pcRef, operations)
       IN /\ Len(r.operations) <= MaxOps
          /\ unanswered + PendingOffers(r.operations) <= MaxOffers
          /\ isHost' = r.isHost
          /\ operations' = r.operations
          /\ error' = SetError(error, r.error)
    /\ UNCHANGED <<joined, wsRef, wsReady, media, pcRef, pc, disableSync,
                   videoId, ytClosure, ytPlayer, ytPlayerRef, unanswered,
                   implicitRollback>>
    /\ UNCHANGED <<playback, msgClosure>>
    /\ Rendered
    /\ UNCHANGED vars

\* The browser settles the oldest chained operation; the handler awaiting
\* it goes on (message handler lines 53-68, startCall lines 129-137).
Settle ==
    /\ pcRef # Null
    /\ operations # <<>>
    /\ LET r == Resume(pc, operations, implicitRollback)
       IN /\ pc' = r.pc
          /\ operations' = r.operations
          /\ error' = SetError(error, r.error)
          /\ unanswered' = unanswered + Offers(Transmitted(wsRef, r.sends))
    /\ UNCHANGED <<joined, wsRef, wsReady, media, pcRef, isHost, disableSync,
                   videoId, ytClosure, ytPlayer, ytPlayerRef,
                   implicitRollback>>
    /\ UNCHANGED <<playback, msgClosure>>
    /\ Rendered
    /\ UNCHANGED vars

\* The ws.send call of pc.onicecandidate, lines 105-110.
onicecandidate == <<SignalMsg(ClientRoom, ClientUser, "candidate")>>

\* A local candidate is gathered, which the browser does once a local
\* description is set; the handler sends onicecandidate.
OnIceCandidate ==
    /\ pcRef # Null
    /\ pc.localDescription # Null
    /\ UNCHANGED clientVars
    /\ UNCHANGED <<playback, msgClosure>>
    /\ Rendered
    /\ UNCHANGED vars

\* The error banner is clicked, line 187.
DismissError ==
    /\ error # Null
    /\ error' = Null
    /\ UNCHANGED <<joined, wsRef, wsReady, media, pcRef, pc, operations, isHost,
                   disableSync, videoId, ytClosure, ytPlayer, ytPlayerRef,
                   unanswered, implicitRollback>>
    /\ UNCHANGED <<playback, msgClosure>>
    /\ Rendered
    /\ UNCHANGED vars

\* The Disable YouTube Sync checkbox, lines 246-248, shown once joined.
SetDisableSync(checked) ==
    /\ joined
    /\ checked # disableSync
    /\ disableSync' = checked
    /\ UNCHANGED <<joined, wsRef, wsReady, media, pcRef, pc, operations, isHost,
                   error, videoId, ytClosure, ytPlayer, ytPlayerRef,
                   unanswered, implicitRollback>>
    /\ UNCHANGED <<playback, msgClosure>>
    /\ Rendered
    /\ UNCHANGED vars

\* createPlayer, YouTubeSync lines 32-49, once the IFrame API has loaded:
\* the player gets the onStateChange the effect captured.
CreatePlayer ==
    /\ joined
    /\ ytPlayer = "none"
    /\ ytPlayer' = "created"
    /\ UNCHANGED <<joined, wsRef, wsReady, media, pcRef, pc, operations, isHost,
                   disableSync, error, videoId, ytClosure, ytPlayerRef,
                   unanswered, implicitRollback>>
    /\ playback' = NewPlayer(VideoIdProp(videoId))
    /\ UNCHANGED <<interval, renderedRef, msgClosure>>
    /\ UNCHANGED vars

\* The player's onReady: handleYTReady, lines 141-143.
HandleYTReady ==
    /\ ytPlayer = "created"
    /\ ytPlayer' = "ready"
    /\ ytPlayerRef' = "player"
    /\ UNCHANGED <<joined, wsRef, wsReady, media, pcRef, pc, operations, isHost,
                   disableSync, error, videoId, ytClosure, unanswered,
                   implicitRollback>>
    /\ UNCHANGED playbackVars
    /\ UNCHANGED vars

\* The ws.send calls of the player's onStateChange: the handler it was
\* created with, YouTubeSync line 40.
OnStateChange(state) ==
    handleYTStateChange(ytClosure, wsRef, ytPlayerRef, state)

\* The ws.send calls that follow from a message event through the player:
\* a call of lines 73-76 that changes the player's state makes the player
\* raise onStateChange with the new state, and the handler it was created
\* with (YouTubeSync line 40) runs as for any other change.
OnStateChangeAfter(data) ==
    IF ytPlayer = "ready" /\ Applied(data).state # playback.state
    THEN OnStateChange(Applied(data).state)
    ELSE <<>>

\* The player changes state, by the user's hand or by playback; state 3,
\* buffering, is what a move of the position shows as.  Its handler sends
\* OnStateChange(state) and renders nothing.
PlayerStateChange(state) ==
    /\ ytPlayer = "ready"
    /\ state # playback.state
    /\ \E t \in IF state = 3 THEN 0..MaxTime ELSE {playback.time} :
          playback' = [playback EXCEPT !.state = state, !.time = t]
    /\ UNCHANGED clientVars
    /\ UNCHANGED <<interval, renderedRef, msgClosure>>
    /\ UNCHANGED vars

\* A handler that sends whatever the input holds, unparsed.
handleVideoIdChangeUnparsed(input, ws, host, disabled) ==
    IF input # <<>> /\ ws # Null /\ host /\ ~disabled
    THEN <<YtSyncMsg(ClientRoom, "load", Undefined, input)>>
    ELSE <<>>

\* The ws.send calls of handleVideoIdChange, lines 151-158, in the current
\* render.
handleVideoIdChange(input, ws, host, disabled) ==
    IF extractYouTubeId(input) # <<>> /\ ws # Null /\ host /\ ~disabled
    THEN <<YtSyncMsg(ClientRoom, "load", Undefined, extractYouTubeId(input))>>
    ELSE <<>>

\* The video input changes; the handler sends handleVideoIdChange(...).  When the videoId prop of YouTubeSync changes,
\* its effect runs again (lines 20-53): the old player is destroyed and, the
\* API being loaded, a new one is created with this render's onStateChange.
HandleVideoIdChange(input) ==
    /\ joined
    /\ input # videoId
    /\ videoId' = input
    /\ IF VideoIdProp(input) # VideoIdProp(videoId)
       THEN /\ ytClosure' = Render(isHost, disableSync)
            /\ ytPlayer' = IF ytPlayer = "none" THEN "none" ELSE "created"
       ELSE UNCHANGED <<ytClosure, ytPlayer>>
    /\ UNCHANGED <<joined, wsRef, wsReady, media, pcRef, pc, operations, isHost,
                   disableSync, error, ytPlayerRef, unanswered,
                   implicitRollback>>
    /\ playback' = IF VideoIdProp(input) # VideoIdProp(videoId) /\ ytPlayer # "none"
                   THEN NewPlayer(VideoIdProp(input))
                   ELSE playback
    /\ UNCHANGED msgClosure
    /\ Rendered
    /\ UNCHANGED vars

\* The video a peer's load envelope names.
OtherVideoId == <<"9", "b", "Z", "k", "p", "7", "q", "1", "9", "f", "0">>

\* The yt-sync envelopes the relay delivers to the page.
YtSyncEnvs ==
    {YtSyncEnv("play", Undefined, Undefined),
     YtSyncEnv("pause", Undefined, Undefined),
     YtSyncEnv("seek", JsonOfTime(1), Undefined),
     YtSyncEnv("load", Undefined, OtherVideoId)}

\* Five seconds of playback.
PlaybackAdvances ==
    /\ ytPlayer = "ready"
    /\ playback.state = 1
    /\ playback.time < MaxTime
    /\ playback' = [playback EXCEPT !.time = @ + 1]
    /\ UNCHANGED clientVars
    /\ UNCHANGED <<interval, renderedRef, msgClosure>>
    /\ UNCHANGED vars

\* The ws.send calls of a tick of the interval, none when no interval runs.
\* The effect runs again whenever isHost or disableSync changes, so the
\* values its callback holds are the current ones.
OnTick ==
    IF interval
    THEN intervalCallback(ytPlayerRef, wsRef, isHost, disableSync)
    ELSE <<>>

\* The interval fires, every 5000 ms while it runs; the callback sends
\* OnTick and logs, which renders.
IntervalFires ==
    /\ interval
    /\ UNCHANGED clientVars
    /\ UNCHANGED <<playback, msgClosure>>
    /\ IF OnTick # <<>> THEN Rendered ELSE UNCHANGED <<interval, renderedRef>>
    /\ UNCHANGED vars

\* The ws.send calls of a click on Sync Video Now in the current render.
OnSyncVideoNow == syncVideoNow(ytPlayerRef, wsRef, isHost, disableSync)

\* The Sync Video Now button, lines 233-245, enabled as the last render
\* left it (disabled={!isHost || !ytPlayerRef.current}); the handler sends
\* OnSyncVideoNow and logs when it has sent.
SyncVideoNow ==
    /\ joined
    /\ isHost
    /\ renderedRef # Null
    /\ UNCHANGED clientVars
    /\ UNCHANGED <<playback, msgClosure>>
    /\ IF OnSyncVideoNow # <<>> THEN Rendered
       ELSE UNCHANGED <<interval, renderedRef>>
    /\ UNCHANGED vars

\* The relay side is idle while the page alone is observed.
RelayIdle ==
    /\ rooms = EmptyRegistry
    /\ roomId = [c \in {} |-> Undefined]
    /\ userId = [c \in {} |-> Undefined]
    /\ status = [c \in Conns |-> "new"]
    /\ sentLog = [c \in Conns |-> <<>>]
    /\ handled = [c \in Conns |-> 0]
    /\ delivered = [c \in Conns |-> <<>>]

InitClient == RelayIdle /\ PageLoaded /\ implicitRollback \in BOOLEAN

\* Call negotiation: the page, its socket and its peer connection, with the
\* relay delivering whatever a peer can send.
NextClient ==
    \/ HandleJoin
    \/ WsOnOpen
    \/ WsOnError
    \/ WsClosed
    \/ \E granted \in BOOLEAN : GetUserMedia(granted)
    \/ \E data \in SignalEnvs \cup ControlEnvs : WsOnMessage(data)
    \/ StartCall
    \/ Settle
    \/ OnIceCandidate
    \/ DismissError

SpecClient == InitClient /\ [][NextClient]_allVars

\* Playback synchronisation: the page, its socket and its player; no peer
\* sends a signal.
NextSync ==
    \/ HandleJoin
    \/ WsOnOpen
    \/ WsOnError
    \/ WsClosed
    \/ \E granted \in BOOLEAN : GetUserMedia(granted)
    \/ \E data \in ControlEnvs \cup YtSyncEnvs : WsOnMessage(data)
    \/ StartCall
    \/ Settle
    \/ \E checked \in BOOLEAN : SetDisableSync(checked)
    \/ PlaybackAdvances
    \/ IntervalFires
    \/ SyncVideoNow
    \/ CreatePlayer
    \/ HandleYTReady
    \/ \E state \in PlayerStates : PlayerStateChange(state)
    \/ \E input \in VideoInputs : HandleVideoIdChange(input)

\* No remote offer arrives here, so what the browser does with one is left
\* out of the start.
InitSync == RelayIdle /\ PageLoaded /\ implicitRollback = FALSE

SpecSync == InitSync /\ [][NextSync]_allVars

\* One call between two clients that both hold a peer connection, while the
\* page's player loads: the page is the one that clicks Start Call, once, or
\* the one that receives the peer's only offer.  No one has called yet while the page is not host,
\* its connection is as created and nothing is chained on it.
NoCallYet ==
    /\ ~isHost
    /\ pcRef # Null
    /\ pc = NewPeerConnection
    /\ operations = <<>>
    /\ unanswered = 0

\* The page is the offerer: Start Call, lines 119-138.
StartCallOnce == NoCallYet /\ StartCall

\* The peer is the offerer: its offer is relayed to the page, lines 45-61.
OfferDelivered == NoCallYet /\ WsOnMessage(SignalEnv("bob", "sdp-offer"))

\* The peer's answer to the page's offer is relayed to the page.
AnswerDelivered == WsOnMessage(SignalEnv("bob", "sdp-answer"))

\* A candidate of the peer is relayed to the page, once the call has begun;
\* the peer gathers a bounded number of them at a time.
CandidateDelivered ==
    /\ ~NoCallYet
    /\ Len(operations) + 1 < MaxOps
    /\ WsOnMessage(SignalEnv("bob", "candidate"))

NextCall ==
    \/ HandleJoin
    \/ WsOnOpen
    \/ GetUserMedia(TRUE)
    \/ \E data \in ControlEnvs : WsOnMessage(data)
    \/ StartCallOnce
    \/ OfferDelivered
    \/ AnswerDelivered
    \/ CandidateDelivered
    \/ Settle
    \/ OnIceCandidate
    \/ DismissError
    \/ CreatePlayer
    \/ HandleYTReady

\* The browser settles every chained operation, and the relay delivers the
\* answer the peer has sent on a socket that stays open.
SpecCall ==
    /\ InitClient
    /\ [][NextCall]_allVars
    /\ WF_allVars(Settle)
    /\ WF_allVars(AnswerDelivered)

\* ------------------------------------------------------------------ claims

\* C1: every signal or yt-sync envelope that a connection S sends after
\* joining room R is sent, as one relayed copy, to every other connection
\* registered in R when the server handles it.
C1_EveryOtherMemberGetsOneCopy ==
    \A S \in OpenConns : \A m \in RelayMsgs : \A oldWs \in ThrowChoices :
      \A k \in RoomsOf(S) : \A P \in Members(k) \ {S} :
        Cardinality(RelayedTo(Handle(S, m, oldWs).sends, P)) = 1

\* C2: in every reachable state, whatever joins (the same connection more
\* than once included), relays and closes came before, no message makes the
\* server send a relayed signal or yt-sync envelope to the connection that
\* sent the message.
C2_NeverBackToSender ==
    \A S \in OpenConns : \A m \in Messages(S) : \A oldWs \in ThrowChoices :
      RelayedTo(Handle(S, m, oldWs).sends, S) = {}

\* C2 witness: a sender listed twice in its own room, next to another
\* member, whose signal is relayed.
C2_Witness ==
    \E S \in OpenConns : \E m \in SignalMsgs :
      /\ HasRoom(rooms, roomId[S])
      /\ TimesListed(S, PropertyKey(roomId[S])) = 2
      /\ Len(Handle(S, m, FALSE).sends) = 1

\* C3: a room key is in the registry if and only if its session list is
\* non-empty; no reachable state holds a room with an empty list.
C3_RoomPresentIffNonEmpty ==
    \A k \in RoomCodes :
      (k \in DOMAIN rooms) <=> (Len(ListOf(k)) > 0)

\* C3 witness: one member of a room has closed and was removed, the room
\* lives on with the member that is left, and no other room exists.
C3_Witness ==
    /\ status["A"] = "closed" /\ status["B"] = "open" /\ status["C"] = "new"
    /\ DOMAIN rooms = {"ABCD"}
    /\ Members("ABCD") = {"B"}

\* C4: a relayed signal or yt-sync envelope goes to a connection P only if P
\* and the sending connection are, at that moment, registered in one room.
C4_OnlyBetweenRoomMembers ==
    \A S \in OpenConns : \A m \in RelayMsgs : \A oldWs \in ThrowChoices :
      LET sends == Handle(S, m, oldWs).sends IN
      \A i \in 1..Len(sends) :
        IsRelayed(sends[i].env) =>
          \E k \in DOMAIN rooms : S \in Members(k) /\ sends[i].to \in Members(k)

\* C5: after a connection A has closed, whatever room codes (the empty
\* string included) A joined before, no room lists A, and a later signal or
\* yt-sync from another member B is not sent to A's handle and makes no
\* error envelope.
C5_ClosedConnectionIsGone ==
    \A A \in ClosedConns :
      /\ RoomsOf(A) = {}
      /\ \A B \in OpenConns : \A m \in RelayMsgs : \A oldWs \in ThrowChoices :
           LET sends == Handle(B, m, oldWs).sends IN
           /\ \A i \in 1..Len(sends) : sends[i].to # A
           /\ Errors(sends) = {}

\* C6: a message that is not valid JSON makes the server send exactly one
\* error envelope, to the sender, and nothing to any other connection; the
\* registry and the sender's closure variables are as before.
C6_GarbageGetsOneError ==
    \A S \in OpenConns : \A oldWs \in ThrowChoices :
      LET r == Handle(S, Garbage, oldWs) IN
      /\ Len(r.sends) = 1
      /\ r.sends[1].to = S
      /\ r.sends[1].env.type = "error"
      /\ r.sends[1].env.message # Undefined
      /\ r.rooms = rooms
      /\ r.roomId = roomId[S] /\ r.userId = userId[S]

\* C6 witness: the sender of the garbage shares its room with another open
\* connection, which gets nothing.
C6_Witness ==
    \E S \in OpenConns : \E P \in OpenConns \ {S} :
      /\ HasRoom(rooms, roomId[S])
      /\ {S, P} \subseteq Members(PropertyKey(roomId[S]))
      /\ Handle(S, Garbage, FALSE).sends = <<Call(S, ErrorEnv("SyntaxError"))>>

\* C7: a well-formed JSON object whose type is missing or is none of join,
\* signal and yt-sync is answered by an error envelope with a message, sent
\* to the sender and to nobody else.
C7_UnknownTypeGetsError ==
    \A S \in OpenConns : \A m \in OtherMsgs : \A oldWs \in ThrowChoices :
      LET sends == Handle(S, m, oldWs).sends IN
      /\ Len(sends) = 1
      /\ sends[1].to = S
      /\ sends[1].env.type = "error"
      /\ sends[1].env.message # Undefined

\* C8: a signal or yt-sync from a connection that no room lists (it never
\* completed a join that registered it) is dropped: nothing is sent to any
\* connection, whatever rooms the registry holds.
C8_NoSessionNoRelay ==
    \A S \in OpenConns : \A m \in RelayMsgs : \A oldWs \in ThrowChoices :
      RoomsOf(S) = {} => Handle(S, m, oldWs).sends = <<>>

C11_OneFaithfulCopyPerMember ==
    \A S \in OpenConns : \A m \in RelayMsgs : \A oldWs \in ThrowChoices :
      LET sends == Handle(S, m, oldWs).sends IN
      \A k \in RoomsOf(S) : \A P \in Members(k) \ {S} :
        /\ Cardinality(RelayedTo(sends, P)) = 1
        /\ \A i \in RelayedTo(sends, P) :
             /\ sends[i].env.type = m.type
             /\ sends[i].env.payload = m.payload
             /\ sends[i].env.action = m.action
             /\ sends[i].env.time = m.time
             /\ sends[i].env.videoId = m.videoId
             /\ m.type = "signal" =>
                  \E j \in 1..Len(rooms[k]) :
                     rooms[k][j].ws = S /\ rooms[k][j].userId = sends[i].env.from

\* C12: in every reachable state each connection is listed in at most one
\* room and at most once in that room.
C12_ListedAtMostOnce ==
    \A c \in Conns :
      /\ Cardinality(RoomsOf(c)) <= 1
      /\ \A k \in RoomsOf(c) : TimesListed(c, k) = 1

\* C13: whenever handling a message ends with an error envelope to the
\* sender, the registry and the sender's recorded room and display name are
\* as they were before the message.
C13_ErrorLeavesStateUnchanged ==
    \A S \in OpenConns : \A m \in Messages(S) : \A oldWs \in ThrowChoices :
      LET r == Handle(S, m, oldWs) IN
      Errors(r.sends) # {} =>
        /\ r.rooms = rooms
        /\ r.roomId = roomId[S]
        /\ r.userId = userId[S]

\* C14: a client never has more than one of its own offers relayed and
\* unanswered at a time, whatever the sequence of start-call actions.
C14_OneOfferInFlight == unanswered <= 1

\* C15: a received ICE candidate is applied to the peer connection only
\* once a remote description is set on it; one that arrives earlier is kept
\* and applied later, never dropped.
C15_CandidateWaitsForRemoteDescription ==
    (pcRef # Null /\ operations # <<>>
        /\ Head(operations).op = "addIceCandidate") =>
       /\ pc.remoteDescription # Null
       /\ PcOperation(pc, Head(operations), implicitRollback).ok

\* C16: a client with a peer connection that receives an offer sets it as
\* remote description, creates an answer, sets the answer as local
\* description and sends exactly one signal carrying the answer, each step
\* being performed in this order; no answer is sent otherwise, and none
\* before the remote description is set.  (An offer that the peer
\* connection refuses to take as remote description is the case of C19 and
\* does not count against this.)
C16_OfferAnsweredInOrder ==
    (pcRef # Null /\ operations # <<>>) =>
       LET el == Head(operations)
           r == Resume(pc, operations, implicitRollback)
           answer == SignalMsg(ClientRoom, ClientUser, "sdp-answer")
       IN /\ el.task = "offer" =>
               /\ el.op # "setRemoteDescription" =>
                     /\ PcOperation(pc, el, implicitRollback).ok
                     /\ pc.remoteDescription = "offer"
               /\ r.sends = IF el.op = "setLocalDescription"
                            THEN <<answer>> ELSE <<>>
               /\ el.op = "setLocalDescription" =>
                     r.pc.localDescription = "answer"
          /\ el.task # "offer" =>
               \A i \in 1..Len(r.sends) : r.sends[i] # answer

\* C17: an offer is sent only by a start-call handler, after that handler
\* has set the offer as local description; and when the answer arrives the
\* client applies it as remote description, which completes the negotiation.
C17_OfferByStartCallAnswerCompletes ==
    (pcRef # Null /\ operations # <<>>) =>
       LET el == Head(operations)
           r == Resume(pc, operations, implicitRollback)
       IN /\ Offers(r.sends) > 0 =>
               /\ el = Operation("startCall", "setLocalDescription")
               /\ r.pc.localDescription = "offer"
               /\ Offers(r.sends) = 1
          /\ el.task = "answer" =>
               /\ PcOperation(pc, el, implicitRollback).ok
               /\ r.pc.remoteDescription = "answer"
               /\ r.pc.signalingState = "stable"

\* C18: once the relay connection of a client has closed, the client has no
\* peer connection and no negotiation step pending, so that it can send no
\* offer until a new peer connection is created.
C18_CloseDiscardsNegotiation ==
    wsRef = "CLOSED" => (pcRef = Null /\ operations = <<>>)

\* C19: a signal that reaches a client without a peer connection, or whose
\* payload the peer connection rejects in its current state, is discarded:
\* the client sends nothing, the state of the peer connection is as before,
\* and the handlers of other messages stay pending as they were.
C19_MismatchedSignalIsDiscarded ==
    /\ (wsRef = "OPEN" /\ pcRef = Null) =>
          \A data \in SignalEnvs :
             LET r == onmessage(data, pcRef, pc, operations)
             IN r.sends = <<>> /\ r.pc = pc /\ r.operations = operations
    /\ (pcRef # Null /\ operations # <<>>
          /\ Head(operations).op \in {"setRemoteDescription", "addIceCandidate"}
          /\ ~PcOperation(pc, Head(operations), implicitRollback).ok) =>
          LET r == Resume(pc, operations, implicitRollback)
          IN r.sends = <<>> /\ r.pc = pc /\ r.operations = Tail(operations)

\* An answer has arrived at a client whose peer connection is stable: the
\* browser is about to reject it.
C19_Witness ==
    /\ wsRef = "OPEN"
    /\ pcRef # Null
    /\ operations # <<>>
    /\ Head(operations) = Operation("answer", "setRemoteDescription")
    /\ pc.signalingState = "stable"

\* C20: whenever the player of a host with synchronisation enabled turns to
\* playing, paused or seeking, the client sends one yt-sync envelope with
\* action play, pause or seek (seek with the current time), whether the
\* player was created before or after the client became host.
C20_HostPlayerChangeIsSent ==
    (isHost /\ ~disableSync /\ ytPlayer = "ready") =>
       /\ OnStateChange(1)
            = <<YtSyncMsg(ClientRoom, "play", Undefined, Undefined)>>
       /\ OnStateChange(2)
            = <<YtSyncMsg(ClientRoom, "pause", Undefined, Undefined)>>
       /\ OnStateChange(3)
            = <<YtSyncMsg(ClientRoom, "seek", CurrentTime, Undefined)>>

\* C30: within one relay fan-out, a send that fails for one peer does not
\* keep the envelope from the remaining peers: every other connection
\* listed in the sender's room whose own send succeeds (it is open) is sent
\* the envelope.
C30_FailedSendSparesTheOthers ==
    \A S \in OpenConns : \A m \in RelayMsgs : \A oldWs \in ThrowChoices :
      LET peers == PeersOf(rooms, roomId[S])
          sends == Handle(S, m, oldWs).sends
      IN \A i \in 1..Len(peers) :
           (peers[i].ws # S /\ peers[i].ws \in OpenConns)
             => \E j \in RelayedTo(sends, peers[i].ws) :
                  sends[j].env = RelayEnvOf(S, m)

\* The relayed envelopes connection P has been sent on behalf of connection
\* S, in the order they were put on P's socket.
GotFrom(S, P) == SelectSeq(delivered[P], LAMBDA f : f.from = S)

\* C29: for any sender S and any peer P, the relayed envelopes P receives
\* from S arrive in the order S sent them, signal and yt-sync envelopes
\* interleaved: a later envelope never belongs to an earlier message of S,
\* and each is the relay of the message of S it is numbered with.
C29_RelayedInSendingOrder ==
    \A S \in Conns : \A P \in Conns :
      LET got == GotFrom(S, P)
      IN /\ \A i \in 1..Len(got) : \A j \in 1..Len(got) :
              i < j => got[i].n <= got[j].n
         /\ \A i \in 1..Len(got) :
              LET m == sentLog[S][got[i].n]
              IN /\ got[i].env.type = m.type
                 /\ got[i].env.payload = m.payload
                 /\ got[i].env.action = m.action

\* An open peer has been sent a signal and then a yt-sync of one open
\* sender, relayed from two messages the sender wrote in that order.
C29_Witness ==
    /\ \E S \in Conns : \E P \in Conns \ {S} :
         LET got == GotFrom(S, P)
         IN /\ Len(got) = 2
            /\ got[1].n < got[2].n
            /\ got[1].env.type = "signal" /\ got[2].env.type = "yt-sync"
            /\ P \in OpenConns /\ S \in OpenConns

\* A host whose player is ready, whose relay connection is open and whose
\* synchronisation is enabled.
HostSyncing == isHost /\ ytPlayer = "ready" /\ wsRef = "OPEN" /\ ~disableSync

\* C21: the host sends the periodic corrective envelope {action: seek, time:
\* current time} on each 5-second tick exactly while its player is playing:
\* one on a tick at which it plays, none on a tick at which it is paused or
\* stopped.
C21_TickSendsExactlyWhilePlaying ==
    HostSyncing =>
      OnTick = IF playback.state = 1
               THEN <<YtSyncMsg(ClientRoom, "seek", CurrentTime, Undefined)>>
               ELSE <<>>

\* The forms of a video URL: what precedes the identifier.
UrlPrefixes ==
    { <<"y", "o", "u", "t", "u", ".", "b", "e", "/">>,
      <<"y", "o", "u", "t", "u", "b", "e", ".", "c", "o", "m", "/", "w", "a", "t", "c", "h", "?", "v", "=">>,
      <<"y", "o", "u", "t", "u", "b", "e", ".", "c", "o", "m", "/", "e", "m", "b", "e", "d", "/">>,
      <<"y", "o", "u", "t", "u", "b", "e", ".", "c", "o", "m", "/", "s", "h", "o", "r", "t", "s", "/">>,
      <<"y", "o", "u", "t", "u", "b", "e", ".", "c", "o", "m", "/", "v", "/">> }

\* The 11-character identifiers that follow a URL prefix in the input.
UrlIds(input) ==
    {SubSeq(input, i + Len(pre), i + Len(pre) + 10) :
        <<i, pre>> \in {x \in (1..Len(input)) \X UrlPrefixes :
                           /\ Lit(input, x[1], x[2])
                           /\ IsId(input, x[1] + Len(x[2]))}}

\* Those identifiers for the inputs the user makes.
RecognisedIds == [v \in VideoInputs |-> UrlIds(v)]

\* The input is itself an identifier: 11 characters of letters, digits, _
\* and -.
IsRawId(input) == Len(input) = 11 /\ \A j \in 1..11 : input[j] \in IdChars

MatchingCall(env) ==
    IF env.action = "play" THEN PlayerCall("playVideo", Undefined)
    ELSE IF env.action = "pause" THEN PlayerCall("pauseVideo", Undefined)
    ELSE IF env.action = "seek" THEN PlayerCall("seekTo", env.time)
    ELSE PlayerCall("loadVideoById", env.videoId)

\* C23: a viewer whose player is ready applies each received yt-sync
\* envelope by exactly one player operation matching its action (play,
\* pause, seek-to with the carried time, load with the carried identifier),
\* and a load sent by the host makes every other member of the room load
\* exactly that identifier: after the envelope, the member's player holds
\* that video.
C23_ViewerAppliesTheEnvelope ==
    (~isHost /\ wsRef = "OPEN") =>
      \A env \in YtSyncEnvs :
        /\ ytPlayer = "ready" => OnYtSync(env) = <<MatchingCall(env)>>
        /\ env.action = "load" => Applied(env).video = env.videoId

\* C24: applying a received play envelope twice in a row on the viewer
\* leaves the viewer's playback state (player state, position, video) as
\* applying it once does; the same holds for pause, for seek with the same
\* time and for load with the same identifier.
C24_ApplyingTwiceIsApplyingOnce ==
    (~isHost /\ wsRef = "OPEN" /\ ytPlayer = "ready") =>
      \A env \in YtSyncEnvs :
        InvokeAll(Applied(env), OnYtSync(env)) = Applied(env)

\* A viewer whose running player would be changed by each of the four
\* envelopes, and has been by a load: it holds the video a peer named, not
\* the one of the page's own input.
C24_Witness ==
    /\ ~isHost /\ wsRef = "OPEN" /\ ytPlayer = "ready"
    /\ playback.video = OtherVideoId
    /\ VideoIdProp(videoId) # OtherVideoId
    /\ \A env \in YtSyncEnvs \ {YtSyncEnv("load", Undefined, OtherVideoId)} :
         Applied(env) # playback

\* C25: after a joined viewer has switched the disable-sync flag on, no
\* yt-sync envelope received while the flag is on changes its player.  (The
\* relay knows nothing of the flag and relays as before.)
C25_DisabledViewerIsLeftAlone ==
    (joined /\ ~isHost /\ wsRef = "OPEN" /\ disableSync) =>
      \A env \in YtSyncEnvs : /\ OnYtSync(env) = <<>>
                              /\ Applied(env) = playback

\* C26: once a client has stopped being host, or its call has ended (its
\* relay connection has closed), its periodic reconciliation timer is
\* cancelled: no interval runs and no tick sends a corrective seek.
C26_TimerCancelledWhenNotHostOrClosed ==
    (~isHost \/ wsRef = "CLOSED") => (~interval /\ OnTick = <<>>)

\* The host plays: its player is ready and playing, its relay connection is
\* open and synchronisation is enabled.
HostPlaying == HostSyncing /\ playback.state = 1

\* C27: while the host plays continuously and the connections stay open,
\* the corrective seeks arrive once per 5-second tick and their time values
\* are non-decreasing in the order received: over every step during which
\* the host keeps playing, the interval runs, its tick sends one seek that
\* carries the current position, and the position does not go back.
C27_SeeksEveryTickNonDecreasing ==
    [][(HostPlaying /\ HostPlaying') =>
         /\ interval
         /\ OnTick = <<YtSyncMsg(ClientRoom, "seek", CurrentTime, Undefined)>>
         /\ playback'.time >= playback.time]_allVars

\* C28: only the host controls playback: a client whose host flag is false
\* never sends a yt-sync envelope, whatever its own player does: no state
\* change of the player, no change of the video input, no tick of the timer
\* and no click on Sync Video Now makes it send one.
C28_NonHostSendsNoYtSync ==
    ~isHost =>
      /\ \A state \in PlayerStates : OnStateChange(state) = <<>>
      /\ \A input \in VideoInputs :
           handleVideoIdChange(input, wsRef, isHost, disableSync) = <<>>
      /\ OnTick = <<>>
      /\ OnSyncVideoNow = <<>>

\* A viewer with everything else in place for sending: socket open,
\* synchronisation enabled, the player ready and playing, a recognised video
\* in the input, the last render having seen the player.
C28_Witness ==
    /\ ~isHost /\ wsRef = "OPEN" /\ ~disableSync
    /\ ytPlayer = "ready" /\ ytPlayerRef # Null /\ renderedRef # Null
    /\ playback.state = 1
    /\ videoId # DefaultVideoId /\ extractYouTubeId(videoId) # <<>>

\* The values the room and user fields of an envelope may hold.
EnvelopeRooms == RoomCodes \cup {Undefined}
EnvelopeUsers == {"mallory", Undefined}

\* C36: the server picks the relay targets and the from tag from what the
\* sending connection recorded at its join, not from the envelope: whatever
\* the room and user fields of a signal or yt-sync envelope hold, the send
\* calls (recipients, from, content) and the state left are the same.
C36_EnvelopeRoomAndUserAreIgnored ==
    \A S \in OpenConns : \A m \in RelayMsgs : \A oldWs \in ThrowChoices :
      LET asSent == Handle(S, m, oldWs)
      IN \A r \in EnvelopeRooms : \A u \in EnvelopeUsers :
           Handle(S, [m EXCEPT !.room = r, !.user = u], oldWs) = asSent

\* A sender with a peer in its room while another room, one an envelope
\* can name, has a member of its own.
C36_Witness ==
    \E S \in OpenConns : \E P \in OpenConns \ {S} : \E Q \in OpenConns \ {S, P} :
      /\ {"ABCD", ""} \subseteq DOMAIN rooms
      /\ roomId[S] = "ABCD" /\ roomId[P] = "ABCD" /\ roomId[Q] = ""
      /\ P \in Members("ABCD") /\ S \in Members("ABCD") /\ Q \in Members("")
      /\ userId[S] # "alice"

\* C38: while the disable-sync flag of a host is on, the host sends no
\* yt-sync envelope of any kind: none on a player state change, none on a
\* video input change, none on a timer tick and none from the manual sync
\* button.
C38_DisabledHostSendsNoYtSync ==
    (isHost /\ disableSync) =>
      /\ ytPlayer = "ready" =>
           \A state \in PlayerStates : OnStateChange(state) = <<>>
      /\ \A input \in VideoInputs :
           handleVideoIdChange(input, wsRef, isHost, disableSync) = <<>>
      /\ OnTick = <<>>
      /\ OnSyncVideoNow = <<>>

\* C39: a start-call action performed while the relay connection is not
\* yet open has no effect on the protocol: it queues nothing on the
\* negotiation object (so no offer is made or sent), leaves the host flag
\* false, and only records an error for the user.
C39_StartCallBeforeOpenOnlyRecordsError ==
    ~wsReady =>
      LET r == startCall(wsReady, isHost, pcRef, operations)
      IN /\ r.operations = operations
         /\ r.isHost = FALSE
         /\ r.error = "WebSocket not ready, cannot start call"

\* A joined page whose camera was granted, so that its negotiation object
\* exists, while its socket is still connecting: startCall called now only
\* sets the error.
C39_Witness ==
    /\ joined /\ ~wsReady /\ wsRef = "CONNECTING"
    /\ pcRef # Null
    /\ startCall(wsReady, isHost, pcRef, operations).error # Null

\* C40: in every reachable state, a client whose host flag is true has sent
\* at least one offer, for every ordering of start-call and completion of
\* local media setup: it has a negotiation object, and that object holds
\* the local description set before an offer is sent, or a startCall is
\* still on its way to sending one.
C40_HostHasSentAnOffer ==
    isHost =>
      /\ pcRef # Null
      /\ pc.localDescription # Null \/ PendingOffers(operations) > 0

\* C33: the client leaves idle for joined only after it has received the
\* joined acknowledgment from the server.  The server acknowledges a join
\* it has received, and the join is sent when the socket opens: while the
\* socket has not opened no acknowledgment can have arrived, so the client
\* is not in the joined state and Start Call is not enabled.
C33_NotJoinedBeforeAcknowledged ==
    wsRef \in {Null, "CONNECTING"} => (~joined /\ ~wsReady)

\* C34: when media acquisition is refused during join, the failure is
\* local only: the client sends no envelope because of it, creates no
\* negotiation object and records an error for the user; its join, and so
\* its room membership on the server, is that of a client whose media
\* succeeded, and having no negotiation object it never has an operation
\* or an offer of its own under way.
C34_RefusedMediaIsLocalOnly ==
    /\ media = "pending" =>
         LET r == afterGetUserMedia(FALSE, pcRef, pc)
             ok == afterGetUserMedia(TRUE, pcRef, pc)
         IN /\ r.sends = <<>> /\ r.sends = ok.sends
            /\ r.pcRef = Null
            /\ r.error = "Could not access camera/microphone."
    /\ (media = "settled" /\ pcRef = Null) =>
         /\ operations = <<>>
         /\ unanswered = 0
         /\ pc = NewPeerConnection
    /\ onopen = <<JoinMsg(ClientRoom, ClientUser, HexKey)>>

\* The camera was refused on a page whose socket is open: the error is
\* shown, no negotiation object exists, and the page has since clicked
\* Start Call.
C34_Witness ==
    /\ media = "settled" /\ pcRef = Null /\ wsRef = "OPEN"
    /\ error = "Could not access camera/microphone."
    /\ isHost

\* C37: applying a received yt-sync envelope never makes the receiving
\* client send a yt-sync envelope, whatever its host flag (so that one
\* user-initiated transition is followed by finitely many envelopes and no
\* echo between clients).
C37_ApplyingSendsNothing ==
    wsRef = "OPEN" => \A env \in YtSyncEnvs : OnStateChangeAfter(env) = <<>>

\* The states of a host that is playing: either video, any position.
HostStates ==
    {[state |-> 1, time |-> t, video |-> v] :
       t \in 0..MaxTime, v \in {DefaultVideoId, OtherVideoId}}

\* The corrective envelope of a tick on a host in state h, as the room
\* receives it.
TickOf(h) == YtSyncEnv("seek", JsonOfTime(h.time), Undefined)

\* C35: reconciliation keeps the viewer aligned with the host: when the host
\* is playing a video, a viewer of the room with sync enabled and a ready
\* player has, once the next corrective tick is delivered and applied, the
\* host's playback state of that tick: video identifier, playing or paused
\* status, and position.
C35_TickAlignsTheViewer ==
    (~isHost /\ wsRef = "OPEN" /\ ytPlayer = "ready" /\ ~disableSync) =>
      \A h \in HostStates : Applied(TickOf(h)) = h

\* C32: for both orderings of "relay connection joined" and "local media
\* ready" on the responder, an offer delivered to a responder that has joined
\* the room is answered; an offer that arrives before the responder's media
\* acquisition has finished is not lost: the handler takes it up as the
\* first operation of its answer, whether getUserMedia is still pending or
\* has handed over the stream.
C32_OfferIsTakenUpInEitherOrder ==
    (wsRef = "OPEN" /\ (media = "pending" \/ pcRef # Null)) =>
      onmessage(SignalEnv("bob", "sdp-offer"), pcRef, pc, operations).operations
        = Append(operations, Operation("offer", "setRemoteDescription"))

\* The page has clicked Start Call and its offer is under way.
Offering == isHost /\ pcRef # Null

\* The page has taken up the peer's offer.
OfferTaken ==
    \E i \in 1..Len(operations) :
      operations[i] = Operation("offer", "setRemoteDescription")

\* The responder has the offer as remote description and its answer as
\* local description.
Answered ==
    /\ pc.remoteDescription = "offer"
    /\ pc.localDescription = "answer"
    /\ pc.signalingState = "stable"

\* The offerer has the answer as remote description.
AnswerApplied ==
    /\ pc.localDescription = "offer"
    /\ pc.remoteDescription = "answer"
    /\ pc.signalingState = "stable"

\* C31: when two clients have joined the same room, both have a peer
\* connection, exactly one of them performs start-call once and every relayed
\* envelope is eventually delivered, then eventually the responder has set
\* the offer as remote description and sent an answer, and the offerer has
\* applied that answer as remote description: the page that took up the
\* offer comes to hold its answer, the step that sets the answer sends it to
\* the relay, and the page that clicked Start Call comes to hold the answer.
C31_OneCallIsNegotiated ==
    /\ OfferTaken ~> Answered
    /\ Offering ~> AnswerApplied
    /\ [][(pc.localDescription # "answer" /\ pc'.localDescription = "answer")
            => Transmitted(wsRef, Resume(pc, operations, implicitRollback).sends)
                 = <<SignalMsg(ClientRoom, ClientUser, "sdp-answer")>>]_allVars

C31_Witness == isHost /\ AnswerApplied /\ operations = <<>> /\ unanswered = 0

====
